---- MODULE Spec2Model ----
(***************************************************************************)
(* Model of styx's `generate` command (src/cmd/generate.go).               *)
(*                                                                         *)
(* Two invocations of the command run as two OS processes on one host.     *)
(* They share the Docker daemon (one container name, one host port) and    *)
(* the migrations directory.  Each process walks through                   *)
(* generateMigrations, applyExistingMigrations and dumpDatabaseSchema      *)
(* statement by statement; every external call may succeed, fail, or       *)
(* never answer.                                                           *)
(*                                                                         *)
(* Schemas are abstracted to a migration version: migration i brings the   *)
(* database from version i-1 to version i, a fresh database is at          *)
(* version 0, and the net effect of a directory holding n migrations is    *)
(* version n.                                                              *)
(***************************************************************************)
EXTENDS Integers, FiniteSets, Sequences, TLC

\* Largest number of migration files in the output directory.
MaxMigrations == 2

\* The two concurrent invocations; the container created by run r has ID r.
Runs == {1, 2}

\* External calls made by a run (Docker, golang-migrate, database/sql).
Calls == {"pull", "create", "start", "new", "up", "query", "stop", "remove"}

VARIABLES
    pc,            \* pc[r]: statement run r is about to execute
    err,           \* err[r]: step whose error generateMigrations returns, "nil" if none
    exitCode,      \* exitCode[r]: process exit status, -1 while running
    failures,      \* failures[r]: steps of run r that reported an error
    attempts,      \* attempts[r][c]: number of times run r issued call c
    respID,        \* respID[r]: resp.ID from ContainerCreate, 0 if unset
    files,         \* files[r]: len(files) seen by applyExistingMigrations
    rowsFrom,      \* rowsFrom[r]: container that answered the catalog query, 0 if none
    currentSchema, \* currentSchema[r]: dumped schema version, -1 if none
    interrupted,   \* interrupted[r]: the process was killed by SIGINT
    nameConflict,  \* nameConflict[r]: ContainerCreate failed because the name was taken
    container,     \* container[c]: daemon-side state of container c
    stoppers,      \* stoppers[c]: runs whose ContainerStop acted on c
    removers,      \* removers[c]: runs whose ContainerRemove acted on c
    db,            \* db[c]: schema version of the database inside container c
    dirState,      \* migrations directory: "ok", "denied" (exists, unreadable), "gone"
    dirEntries,    \* number of migration files in the directory
    schemaFile     \* desired schema version declared by the input schema.sql

runVars == <<exitCode, respID, files, rowsFrom, currentSchema, interrupted, nameConflict>>
dockerVars == <<container, stoppers, removers>>
fsVars == <<dirState, dirEntries, schemaFile>>
vars == <<pc, err, failures, exitCode, respID, files, rowsFrom, currentSchema,
          interrupted, nameConflict, attempts, container, stoppers, removers,
          db, dirState, dirEntries, schemaFile>>

----------------------------------------------------------------------------
\* Docker daemon and sandbox endpoint

\* Containers that hold the fixed name "styx-postgres".
Named == {c \in Runs : container[c] \in {"created", "running", "stopped"}}

\* Containers bound to host port 5433, the endpoint of postgresDsn.
Listening == {c \in Runs : container[c] = "running"}

\* Results m.Up() can produce against database version v with n migrations
\* on disk: ErrNoChange is reported only when nothing is left to apply.
UpResults(v, n) == {"nil", "error"} \cup (IF v = n THEN {"ErrNoChange"} ELSE {})

----------------------------------------------------------------------------
\* Control-flow helpers

Goto(r, next) ==
    /\ pc' = [pc EXCEPT ![r] = next]
    /\ UNCHANGED <<err, failures>>

\* `return fmt.Errorf(...)` before the deferred teardown is registered.
ReturnError(r, step) ==
    /\ pc' = [pc EXCEPT ![r] = "returned"]
    /\ err' = [err EXCEPT ![r] = step]
    /\ failures' = [failures EXCEPT ![r] = @ \cup {step}]

\* `return fmt.Errorf(...)` after the defer: the deferred function runs first.
DeferredError(r, step) ==
    /\ pc' = [pc EXCEPT ![r] = "stop"]
    /\ err' = [err EXCEPT ![r] = step]
    /\ failures' = [failures EXCEPT ![r] = @ \cup {step}]

\* log.Fatal(): the process exits with status 1 on the spot.
Fatal(r, step) ==
    /\ pc' = [pc EXCEPT ![r] = "exited"]
    /\ exitCode' = [exitCode EXCEPT ![r] = 1]
    /\ failures' = [failures EXCEPT ![r] = @ \cup {step}]
    /\ UNCHANGED err

Called(r, c) == attempts' = [attempts EXCEPT ![r][c] = @ + 1]

----------------------------------------------------------------------------
Init ==
    /\ pc = [r \in Runs |-> "mkdir"]
    /\ err = [r \in Runs |-> "nil"]
    /\ exitCode = [r \in Runs |-> -1]
    /\ failures = [r \in Runs |-> {}]
    /\ attempts = [r \in Runs |-> [c \in Calls |-> 0]]
    /\ respID = [r \in Runs |-> 0]
    /\ files = [r \in Runs |-> 0]
    /\ rowsFrom = [r \in Runs |-> 0]
    /\ currentSchema = [r \in Runs |-> -1]
    /\ interrupted = [r \in Runs |-> FALSE]
    /\ nameConflict = [r \in Runs |-> FALSE]
    /\ container = [c \in Runs |-> "none"]
    /\ stoppers = [c \in Runs |-> {}]
    /\ removers = [c \in Runs |-> {}]
    /\ db = [c \in Runs |-> 0]
    /\ dirState \in {"ok", "denied", "gone"}
    /\ dirEntries \in 0..MaxMigrations
    /\ (dirState = "gone" => dirEntries = 0)
    /\ schemaFile \in 0..MaxMigrations

----------------------------------------------------------------------------
\* generateMigrations

\* os.MkdirAll(migrationsDir, 0755)
MkdirAll(r) ==
    /\ pc[r] = "mkdir"
    /\ \E ok \in BOOLEAN :
        IF ok
        THEN /\ dirState' = IF dirState = "gone" THEN "ok" ELSE dirState
             /\ Goto(r, "client")
        ELSE /\ ReturnError(r, "mkdir")
             /\ UNCHANGED dirState
    /\ UNCHANGED <<runVars, attempts, dockerVars, db, dirEntries, schemaFile>>

\* client.NewClientWithOpts(client.FromEnv)
NewClient(r) ==
    /\ pc[r] = "client"
    /\ \E ok \in BOOLEAN :
        IF ok THEN Goto(r, "pull") ELSE ReturnError(r, "client")
    /\ UNCHANGED <<runVars, attempts, dockerVars, db, fsVars>>

\* dockerClient.ImagePull(ctx, DOCKER_POSTGRES_IMAGE, ...)
ImagePull(r) ==
    /\ pc[r] = "pull"
    /\ Called(r, "pull")
    /\ \E ok \in BOOLEAN :
        IF ok THEN Goto(r, "create") ELSE ReturnError(r, "pull")
    /\ UNCHANGED <<runVars, dockerVars, db, fsVars>>

\* A variant of the error branch of ContainerCreate that clears a stale
\* container holding the name before returning.
CreateErrorRemoveStale(r) ==
    /\ nameConflict' = [nameConflict EXCEPT ![r] = (Named # {})]
    /\ container' = [c \in Runs |-> IF c \in Named THEN "removed" ELSE container[c]]
    /\ removers' = [c \in Runs |-> IF c \in Named THEN removers[c] \cup {r} ELSE removers[c]]
    /\ ReturnError(r, "create")
    /\ UNCHANGED <<exitCode, respID, files, rowsFrom, currentSchema, interrupted,
                   stoppers>>

\* `if err != nil { return ... }` after ContainerCreate: nothing is sent to
\* the daemon, the error is returned.
CreateError(r) ==
    /\ nameConflict' = [nameConflict EXCEPT ![r] = (Named # {})]
    /\ ReturnError(r, "create")
    /\ UNCHANGED <<exitCode, respID, files, rowsFrom, currentSchema, interrupted,
                   dockerVars>>

\* dockerClient.ContainerCreate(ctx, ..., "styx-postgres"): the daemon
\* refuses a name that is in use, and may fail for any other reason.
ContainerCreate(r) ==
    /\ pc[r] = "create"
    /\ Called(r, "create")
    /\ \/ /\ Named = {}
          /\ container' = [container EXCEPT ![r] = "created"]
          /\ respID' = [respID EXCEPT ![r] = r]
          /\ Goto(r, "start")
          /\ UNCHANGED <<exitCode, files, rowsFrom, currentSchema, interrupted,
                         nameConflict, stoppers, removers>>
       \/ CreateError(r)
    /\ UNCHANGED <<db, fsVars>>

\* dockerClient.ContainerStart(ctx, resp.ID, ...): binds host port 5433.
\* On error the function returns; the teardown is not registered yet.
ContainerStart(r) ==
    /\ pc[r] = "start"
    /\ Called(r, "start")
    /\ \/ /\ Listening = {}
          /\ container[respID[r]] = "created"
          /\ container' = [container EXCEPT ![respID[r]] = "running"]
          /\ Goto(r, "sleep")
       \/ /\ ReturnError(r, "start")
          /\ UNCHANGED container
    /\ UNCHANGED <<runVars, stoppers, removers, db, fsVars>>

\* defer func() {...}() is registered, then time.Sleep(3 * time.Second).
Sleep(r) ==
    /\ pc[r] = "sleep"
    /\ Goto(r, "readdir")
    /\ UNCHANGED <<runVars, attempts, dockerVars, db, fsVars>>

----------------------------------------------------------------------------
\* applyExistingMigrations

\* os.ReadDir(migrationsDir) and the two checks that follow it:
\* an error other than not-exist returns nil, an empty listing returns nil.
ReadDir(r) ==
    /\ pc[r] = "readdir"
    /\ IF dirState = "denied"
       THEN /\ pc' = [pc EXCEPT ![r] = "query"]
            /\ failures' = [failures EXCEPT ![r] = @ \cup {"readdir"}]
            /\ UNCHANGED <<err, files>>
       ELSE /\ files' = [files EXCEPT ![r] = IF dirState = "gone" THEN 0 ELSE dirEntries]
            /\ Goto(r, IF files'[r] = 0 THEN "query" ELSE "new")
    /\ UNCHANGED <<exitCode, respID, rowsFrom, currentSchema, interrupted, nameConflict,
                   attempts, dockerVars, db, fsVars>>

\* migrate.New(migrationURL, dsn): opens the source directory and connects
\* to the database listening on localhost:5433.
MigrateNew(r) ==
    /\ pc[r] = "new"
    /\ Called(r, "new")
    /\ \/ /\ Listening # {}
          /\ Goto(r, "up")
       \/ DeferredError(r, "new")
    /\ UNCHANGED <<runVars, dockerVars, db, fsVars>>

\* m.Up(): nil and ErrNoChange let applyExistingMigrations return nil, any
\* other error is returned; a failing Up may have applied some migrations.
MigrateUp(r) ==
    /\ pc[r] = "up"
    /\ Called(r, "up")
    /\ \/ /\ Listening # {}
          /\ LET c == CHOOSE x \in Listening : TRUE IN
             \E res \in UpResults(db[c], dirEntries) :
                CASE res = "nil" ->
                        /\ db' = [db EXCEPT ![c] = dirEntries]
                        /\ Goto(r, "query")
                  [] res = "ErrNoChange" ->
                        /\ UNCHANGED db
                        /\ Goto(r, "query")
                  [] OTHER ->
                        /\ \E v \in db[c]..dirEntries : db' = [db EXCEPT ![c] = v]
                        /\ DeferredError(r, "up")
       \/ /\ Listening = {}
          /\ UNCHANGED db
          /\ DeferredError(r, "up")
    /\ UNCHANGED <<runVars, dockerVars, fsVars>>

----------------------------------------------------------------------------
\* dumpDatabaseSchema

\* pq.NewConnector, sql.OpenDB and conn.Query(query): the connection is
\* made to whatever listens on localhost:5433.
Query(r) ==
    /\ pc[r] = "query"
    /\ Called(r, "query")
    /\ \/ /\ Listening # {}
          /\ rowsFrom' = [rowsFrom EXCEPT ![r] = CHOOSE x \in Listening : TRUE]
          /\ Goto(r, "scan")
       \/ /\ DeferredError(r, "query")
          /\ UNCHANGED rowsFrom
    /\ UNCHANGED <<exitCode, respID, files, currentSchema, interrupted, nameConflict,
                   dockerVars, db, fsVars>>

\* The rows.Next()/rows.Scan loop and rows.Err(); then `return nil` from
\* generateMigrations, which runs the deferred teardown.
Scan(r) ==
    /\ pc[r] = "scan"
    /\ \/ /\ currentSchema' = [currentSchema EXCEPT ![r] = db[rowsFrom[r]]]
          /\ Goto(r, "stop")
       \/ /\ DeferredError(r, "scan")
          /\ UNCHANGED currentSchema
    /\ UNCHANGED <<exitCode, respID, files, rowsFrom, interrupted, nameConflict,
                   attempts, dockerVars, db, fsVars>>

----------------------------------------------------------------------------
\* The deferred teardown

\* dockerClient.ContainerStop(ctx, resp.ID, ...); log.Fatal on error.
ContainerStop(r) ==
    /\ pc[r] = "stop"
    /\ Called(r, "stop")
    /\ \/ /\ container[respID[r]] \in {"running", "stopped"}
          /\ container' = [container EXCEPT ![respID[r]] = "stopped"]
          /\ stoppers' = [stoppers EXCEPT ![respID[r]] = @ \cup {r}]
          /\ Goto(r, "remove")
          /\ UNCHANGED exitCode
       \/ /\ Fatal(r, "stop")
          /\ UNCHANGED <<container, stoppers>>
    /\ UNCHANGED <<respID, files, rowsFrom, currentSchema, interrupted, nameConflict,
                   removers, db, fsVars>>

\* dockerClient.ContainerRemove(ctx, resp.ID, {Force: true}); log.Fatal on
\* error; otherwise generateMigrations returns its result.
ContainerRemove(r) ==
    /\ pc[r] = "remove"
    /\ Called(r, "remove")
    /\ \/ /\ container[respID[r]] \in {"created", "running", "stopped"}
          /\ container' = [container EXCEPT ![respID[r]] = "removed"]
          /\ removers' = [removers EXCEPT ![respID[r]] = @ \cup {r}]
          /\ Goto(r, "returned")
          /\ UNCHANGED exitCode
       \/ /\ Fatal(r, "remove")
          /\ UNCHANGED <<container, removers>>
    /\ UNCHANGED <<respID, files, rowsFrom, currentSchema, interrupted, nameConflict,
                   stoppers, db, fsVars>>

----------------------------------------------------------------------------
\* The command's Run function: os.Exit(1) on error, otherwise the process
\* ends with status 0.
Run(r) ==
    /\ pc[r] = "returned"
    /\ pc' = [pc EXCEPT ![r] = "exited"]
    /\ exitCode' = [exitCode EXCEPT ![r] = IF err[r] # "nil" THEN 1 ELSE 0]
    /\ UNCHANGED <<err, failures, respID, files, rowsFrom, currentSchema, interrupted,
                   nameConflict, attempts, dockerVars, db, fsVars>>

\* An external call that never answers: every call is made with
\* context.Background() and no deadline, so the process blocks in it.
Hang(r) ==
    /\ pc[r] \in Calls
    /\ Called(r, pc[r])
    /\ Goto(r, "hung")
    /\ UNCHANGED <<runVars, dockerVars, db, fsVars>>

\* SIGINT: no handler is installed and ctx is not cancellable, so the Go
\* runtime ends the process at once; deferred functions do not run.
Interrupt(r) ==
    /\ pc[r] # "exited"
    /\ pc' = [pc EXCEPT ![r] = "exited"]
    /\ exitCode' = [exitCode EXCEPT ![r] = 130]
    /\ interrupted' = [interrupted EXCEPT ![r] = TRUE]
    /\ UNCHANGED <<err, failures, respID, files, rowsFrom, currentSchema, nameConflict,
                   attempts, dockerVars, db, fsVars>>

Next ==
    \E r \in Runs :
        \/ MkdirAll(r)
        \/ NewClient(r)
        \/ ImagePull(r)
        \/ ContainerCreate(r)
        \/ ContainerStart(r)
        \/ Sleep(r)
        \/ ReadDir(r)
        \/ MigrateNew(r)
        \/ MigrateUp(r)
        \/ Query(r)
        \/ Scan(r)
        \/ ContainerStop(r)
        \/ ContainerRemove(r)
        \/ Run(r)
        \/ Hang(r)
        \/ Interrupt(r)

Spec == Init /\ [][Next]_vars

TypeOK ==
    /\ pc \in [Runs -> {"mkdir", "client", "pull", "create", "start", "sleep", "readdir",
                        "new", "up", "query", "scan", "stop", "remove", "returned",
                        "exited", "hung"}]
    /\ exitCode \in [Runs -> {-1, 0, 1, 130}]
    /\ respID \in [Runs -> {0} \cup Runs]
    /\ container \in [Runs -> {"none", "created", "running", "stopped", "removed"}]
    /\ db \in [Runs -> 0..MaxMigrations]
    /\ Cardinality(Listening) <= 1
    /\ Cardinality(Named) <= 1

----------------------------------------------------------------------------
\* Properties

\* Run r's process has ended on its own account (not killed by a signal).
Ended(r) == pc[r] = "exited" /\ ~interrupted[r]

\* The container created by run r still exists on the daemon.
Leftover(r) == respID[r] # 0 /\ container[respID[r]] \in {"created", "running", "stopped"}

\* applyExistingMigrations has returned in run r: either its error is being
\* returned, or the catalog query that follows it has been issued.
ApplyReturned(r) == err[r] \in {"new", "up"} \/ attempts[r]["query"] > 0

\* C1: the exit code is 0 only when every step of the run succeeded; a
\* failure of any step (reading the migrations directory included) makes
\* the process exit non-zero.
C1_ExitZeroOnlyIfAllSucceeded ==
    \A r \in Runs : (pc[r] = "exited" /\ exitCode[r] = 0) => failures[r] = {}

\* C2: a run whose steps all succeed exits 0 exactly when the desired
\* schema of the input file equals the schema obtained by replaying the
\* on-disk migrations; it exits non-zero when they differ.
C2_DriftDecidesExit ==
    \A r \in Runs :
        (Ended(r) /\ failures[r] = {}) => (exitCode[r] = 0 <=> schemaFile = dirEntries)

\* C3: once ContainerCreate has succeeded, the container has been both
\* stopped and removed by the time the process ends, whichever later step
\* failed.
C3_TornDownOnEveryExit ==
    \A r \in Runs :
        (Ended(r) /\ respID[r] # 0) =>
            /\ container[respID[r]] = "removed"
            /\ r \in stoppers[respID[r]]

\* C4: when image pull, container create or container start fails, the run
\* fails and no container created by it is left on the daemon.
C4_NoPartialStateOnProvisioningFailure ==
    \A r \in Runs :
        (Ended(r) /\ failures[r] \cap {"pull", "create", "start"} # {}) =>
            /\ exitCode[r] # 0
            /\ ~Leftover(r)

\* C5: the catalog dump is issued only when the sandbox database is at the
\* state recorded by the migrations in the output directory (all of them
\* applied, or there were none).
C5_DumpSeesMigratedState ==
    \A r \in Runs :
        attempts[r]["query"] > 0 => (respID[r] # 0 /\ db[respID[r]] = dirEntries)

\* C6: when a user interrupt ends a run whose container had been started,
\* the container has been stopped and removed before the process ends.
C6_InterruptStillTearsDown ==
    \A r \in Runs :
        (pc[r] = "exited" /\ interrupted[r] /\ respID[r] # 0
            /\ container[respID[r]] \notin {"none", "created"}) =>
            /\ container[respID[r]] = "removed"
            /\ r \in stoppers[respID[r]]

\* C7: no run blocks forever in an external call, and an external call
\* whose error ends the run had been tried twice (one retry).
C7_TimeoutAndRetryOnce ==
    \A r \in Runs :
        /\ pc[r] # "hung"
        /\ (err[r] \in Calls => attempts[r][err[r]] = 2)

\* C9: once applyExistingMigrations has returned: with a readable, empty
\* directory it returned success with the applier never initialised; with
\* at least one entry in the directory the applier was initialised and,
\* unless initialisation failed, run.
C9_SkipExactlyWhenNoMigrations ==
    \A r \in Runs :
        ApplyReturned(r) =>
            /\ (dirState = "ok" /\ dirEntries = 0) =>
                   (err[r] \notin {"new", "up"} /\ attempts[r]["new"] = 0)
            /\ dirEntries >= 1 =>
                   /\ attempts[r]["new"] = 1
                   /\ (err[r] # "new" => attempts[r]["up"] = 1)

\* C10: under any interleaving of the two runs, a container is stopped and
\* removed only by the run whose ContainerCreate returned its ID; a run
\* whose ContainerCreate failed ends with an error and has touched no
\* container; and the rows of a run's dump come from its own container.
C10_OnlyOwnContainer ==
    /\ \A r \in Runs : \A c \in Runs :
           r \in (stoppers[c] \cup removers[c]) => respID[r] = c
    /\ \A r \in Runs :
           (Ended(r) /\ "create" \in failures[r]) => (exitCode[r] = 1 /\ respID[r] = 0)
    /\ \A r \in Runs : rowsFrom[r] # 0 => rowsFrom[r] = respID[r]

\* Witness of C10: one run was refused the container name while the other
\* run's container existed, and that other run dumped the schema from its
\* own container and tore it down.
C10_Witness ==
    \E r \in Runs : \E s \in Runs \ {r} :
        /\ Ended(r) /\ nameConflict[r]
        /\ currentSchema[s] # -1 /\ rowsFrom[s] = s
        /\ container[s] = "removed" /\ removers[s] = {s} /\ stoppers[s] = {s}

====
